---------------------------- MODULE Spec2Model ----------------------------
(***************************************************************************)
(* A model of the AppRole secret-id validation core of RustyVault          *)
(* (src/modules/credential/approle/validation.rs) on top of the generic    *)
(* Storage contract (src/storage/mod.rs).                                  *)
(*                                                                         *)
(* Every caller is a thread of Threads.  An operation is a sequence of     *)
(* steps: one step per lock acquisition and one per storage access, so     *)
(* that every interleaving the locks allow is explored.  A storage access  *)
(* may fail (the parameter ok of the step).                                *)
(***************************************************************************)
EXTENDS Integers, Sequences, FiniteSets, TLC

(***************************************************************************)
(* Bounds of the model.                                                    *)
(***************************************************************************)
\* Number of concurrent callers.
NumThreads == 2
\* Number of uuids generated (registrations that reach the accessor) in one
\* behaviour.
MaxUuid == 2
\* The instants SystemTime::now() may return are 1..MaxNow seconds.
MaxNow == 1
\* The maximum lease duration, in seconds.
MaxLeaseSecs == 2
\* Durations tried on the pure function derive_secret_id_ttl: 0..MaxDurSecs.
MaxDurSecs == 30

Threads == 1..NumThreads

(***************************************************************************)
(* Strings.  A role name or a secret-id is a text with its byte length;    *)
(* hmac keys, prefixes and error messages are plain strings; digests,      *)
(* accessors and salted ids are tuples, the empty string being <<>>.       *)
(***************************************************************************)
MAX_HMAC_INPUT_LENGTH == 4096

Str(txt, len) == [txt |-> txt, len |-> len]
NoStr == Str("", 0)
EmptyStr == <<>>

SECRET_ID_PREFIX == "secret_id/"
SECRET_ID_LOCAL_PREFIX == "secret_id_local/"
SECRET_ID_ACCESSOR_PREFIX == "accessor/"
SECRET_ID_ACCESSOR_LOCAL_PREFIX == "accessor_local/"

\* Inputs of the callers.
R1 == Str("r1", 2)
R2 == Str("r2", 2)
LongRole == Str("long-role", MAX_HMAC_INPUT_LENGTH + 1)
S1 == Str("s1", 2)
S2 == Str("s2", 2)
LongSecret == Str("long-secret", MAX_HMAC_INPUT_LENGTH + 1)

(***************************************************************************)
(* Results: Ok(v) or Err(message).                                         *)
(***************************************************************************)
Ok(v) == [tag |-> "Ok", val |-> v]
Err(msg) == [tag |-> "Err", val |-> msg]
NoRet == [tag |-> "None", val |-> ""]
IsOk(r) == r.tag = "Ok"
IsErr(r, msg) == r.tag = "Err" /\ r.val = msg

ALREADY_REGISTERED == "secret_id is already registered"
INVALID_HMAC_KEY == "invalid hmac key"
VALUE_TOO_LONG == "value is longer than maximum of 4096 bytes"
MISSING_PREFIX == "missing secret id prefix"
MISSING_SECRET_ID_HMAC == "missing secret id hmac"
MISSING_ROLE_NAME_HMAC == "missing role name hmac"
MISSING_ACCESSOR == "missing secret id accessor"
NOT_INITIALIZED == "approle module not initialized"
STORAGE_ERROR == "storage error"

(***************************************************************************)
(* Time.  A Duration and a SystemTime are seconds and nanoseconds.         *)
(***************************************************************************)
Dur(secs, nanos) == [secs |-> secs, nanos |-> nanos]
as_secs(d) == d.secs
DurGreater(a, b) == a.secs > b.secs \/ (a.secs = b.secs /\ a.nanos > b.nanos)
TimeAdd(t, d) ==
    LET n == t.nanos + d.nanos
    IN  IF n >= 1000000000 THEN Dur(t.secs + d.secs + 1, n - 1000000000)
        ELSE Dur(t.secs + d.secs, n)

MAX_LEASE_DURATION_SECS == Dur(MaxLeaseSecs, 0)

\* The caller's clock when it builds an entry; the instants register may read.
CallerTime == Dur(0, 0)
NowValues == {Dur(s, 0) : s \in 1..MaxNow}

\* Requested lifetimes: none, half a second, the maximum, above the maximum.
TtlInputs == {Dur(0, 0), Dur(0, 500000000), MAX_LEASE_DURATION_SECS,
              Dur(MaxLeaseSecs + 1, 0)}

(***************************************************************************)
(* SecretIdStorageEntry (the fields this core reads or writes; num_uses,   *)
(* metadata and the CIDR lists are carried along untouched) and            *)
(* SecretIdAccessorStorageEntry.                                           *)
(***************************************************************************)
SecretIdStorageEntry(accessor, ttl, created, expires, updated) ==
    [secret_id_accessor |-> accessor, secret_id_ttl |-> ttl,
     creation_time |-> created, expiration_time |-> expires,
     last_updated_time |-> updated]

SecretIdAccessorStorageEntry(secret_id_hmac) == [secret_id_hmac |-> secret_id_hmac]

\* The entries a caller hands to register: Default plus the requested ttl.
EntryInputs ==
    {SecretIdStorageEntry(EmptyStr, ttl, CallerTime, CallerTime, CallerTime) :
        ttl \in TtlInputs}
NoEntry == SecretIdStorageEntry(EmptyStr, Dur(0, 0), CallerTime, CallerTime, CallerTime)

(***************************************************************************)
(* Pure functions.                                                         *)
(***************************************************************************)
\* HMAC-SHA256 of value under key, hex encoded: a digest names its inputs.
create_hmac_OffByOne(key, value) ==
    IF key = "" THEN Err(INVALID_HMAC_KEY)
    ELSE IF value.len >= MAX_HMAC_INPUT_LENGTH THEN Err(VALUE_TOO_LONG)
    ELSE Ok(<<"hmac-sha256", key, value.txt>>)

create_hmac(key, value) ==
    IF key = "" THEN Err(INVALID_HMAC_KEY)
    ELSE IF value.len > MAX_HMAC_INPUT_LENGTH THEN Err(VALUE_TOO_LONG)
    ELSE Ok(<<"hmac-sha256", key, value.txt>>)

derive_secret_id_ttl_Uncapped(secret_id_ttl) == secret_id_ttl

derive_secret_id_ttl(secret_id_ttl) ==
    IF DurGreater(secret_id_ttl, MAX_LEASE_DURATION_SECS)
    THEN MAX_LEASE_DURATION_SECS
    ELSE secret_id_ttl

\* utils::generate_uuid: the n-th uuid generated is a fresh value.
generate_uuid(n) == <<"uuid", n>>

\* Salt::salt_id: a deterministic keyed transform of the accessor.
salt_id(accessor) == <<"salt", accessor>>

\* StorageEntry::new serializes the value; serde_json::from_slice reads it back.
StorageEntryNew(k, v) == [key |-> k, value |-> [json |-> v]]
from_slice(value) == value.json

\* The index of a SecretIdStorageEntry and of an accessor entry.
EntryIndex(role_secret_id_prefix, role_name_hmac, secret_id_hmac) ==
    <<role_secret_id_prefix, role_name_hmac, secret_id_hmac>>

AccessorPrefix(role_secret_id_prefix) ==
    IF role_secret_id_prefix = SECRET_ID_LOCAL_PREFIX
    THEN SECRET_ID_ACCESSOR_LOCAL_PREFIX
    ELSE SECRET_ID_ACCESSOR_PREFIX

AccessorIndex(secret_id_accessor, role_secret_id_prefix) ==
    <<AccessorPrefix(role_secret_id_prefix), salt_id(secret_id_accessor), EmptyStr>>

(***************************************************************************)
(* The Storage contract: a map from keys to values.                        *)
(***************************************************************************)
StorageGet(s, k) == IF k \in DOMAIN s THEN Ok(s[k]) ELSE NoRet
StoragePut(s, e) == [k \in DOMAIN s \cup {e.key} |-> IF k = e.key THEN e.value ELSE s[k]]
StorageDelete(s, k) == [j \in DOMAIN s \ {k} |-> s[j]]
\* The immediate children of prefix/role_hmac/.
StorageList(s, prefix, role_name_hmac) ==
    {k[3] : k \in {j \in DOMAIN s : j[1] = prefix /\ j[2] = role_name_hmac}}

\* The striped lock manager: one reader/writer lock per key.
get_lock(key) == key


\* Option values.
None == [some |-> FALSE]
Some(v) == [some |-> TRUE, val |-> v]
is_some(o) == o.some

(***************************************************************************)
(* State.                                                                  *)
(*   storage                   the key-value store behind the Storage      *)
(*                             contract                                    *)
(*   salt                      whether self.salt holds a Salt              *)
(*   secret_id_locks           the holds <<lock, thread, mode>> of the     *)
(*                             locks striped by secret-id digest           *)
(*   secret_id_accessor_locks  the same for the locks striped by accessor  *)
(*   th                        each caller's operation, arguments, locals, *)
(*                             position and result; a flush notes whether  *)
(*                             it runs alone (no other operation in        *)
(*                             progress since its call) and whether it     *)
(*                             then resumes a flush that stopped at a      *)
(*                             failed delete in the step before its call   *)
(*   nextUuid                  the number of uuids generated so far        *)
(*   last                      the operation that returned in the last     *)
(*                             step, with its arguments and result (Idle   *)
(*                             when the last step returned from nothing)   *)
(*   registered                history: the register calls that generated  *)
(*                             an accessor and have returned, in the order *)
(*                             of their return, with their outcome         *)
(*   call                      a call of a pure function: its argument and *)
(*                             result                                      *)
(***************************************************************************)
VARIABLES storage, salt, secret_id_locks, secret_id_accessor_locks, th,
          nextUuid, last, registered, call

vars == <<storage, salt, secret_id_locks, secret_id_accessor_locks, th,
          nextUuid, last, registered, call>>

Idle ==
    [pc |-> "idle", op |-> "none", role |-> NoStr, sid |-> NoStr, key |-> "",
     prefix |-> "", rh |-> EmptyStr, sh |-> EmptyStr, entry |-> NoEntry,
     requested_ttl |-> Dur(0, 0),
     acc |-> EmptyStr, list |-> <<>>, snap |-> {}, alone |-> FALSE,
     resumed |-> FALSE, ret |-> NoRet, from |-> "idle"]

NoCall == [fn |-> "none", stage |-> "none", arg |-> Dur(0, 0), ret |-> Dur(0, 0),
           again |-> Dur(0, 0)]

Init ==
    /\ storage = <<>>
    /\ salt = FALSE
    /\ secret_id_locks = {}
    /\ secret_id_accessor_locks = {}
    /\ th = [t \in Threads |-> Idle]
    /\ nextUuid = 0
    /\ last = Idle
    /\ registered = <<>>
    /\ call = NoCall

\* RwLock: a shared hold excludes writers, an exclusive hold excludes all.
CanRead(locks, id) == \A h \in locks : h[1] = id => h[3] = "read"
CanWrite(locks, id) == \A h \in locks : h[1] # id
Release(locks, id, t) == {h \in locks : ~(h[1] = id /\ h[2] = t)}

\* A caller may start an operation when it runs none.
Busy(t) == th[t].pc # "idle"
Free(t) == ~Busy(t)
Quiescent == \A t \in Threads : ~Busy(t)

\* What the last step returned: the call, its result and where it returned.
Returned(t, rec, ret) == [rec EXCEPT !.pc = "done", !.ret = ret, !.from = rec.pc]

\* Thread t starts an operation and goes on in state rec, or returns ret at
\* once: the operations of the other callers no longer run alone.
Start(t, rec) ==
    /\ th' = [u \in Threads |-> IF u = t THEN rec ELSE [th[u] EXCEPT !.alone = FALSE, !.resumed = FALSE]]
    /\ last' = Idle
StartReturn(t, rec, ret) ==
    /\ th' = [u \in Threads |-> IF u = t THEN Idle ELSE [th[u] EXCEPT !.alone = FALSE, !.resumed = FALSE]]
    /\ last' = Returned(t, rec, ret)
\* Thread t goes on in state rec, or returns ret.
Step(t, rec) ==
    /\ th' = [th EXCEPT ![t] = rec]
    /\ last' = Idle
Return(t, rec, ret) ==
    /\ th' = [th EXCEPT ![t] = Idle]
    /\ last' = Returned(t, rec, ret)

(***************************************************************************)
(* The secret-id entry store: lock-free, the callers hold the lock.        *)
(***************************************************************************)
get_secret_id_storage_entry_WrongIndex(s, ok, role_secret_id_prefix, role_name_hmac, secret_id_hmac) ==
    IF secret_id_hmac = EmptyStr THEN Err(MISSING_SECRET_ID_HMAC)
    ELSE IF role_name_hmac = EmptyStr THEN Err(MISSING_ROLE_NAME_HMAC)
    ELSE IF ~ok THEN Err(STORAGE_ERROR)
    ELSE LET storage_entry ==
                 StorageGet(s, EntryIndex(role_secret_id_prefix, secret_id_hmac, role_name_hmac))
         IN  IF ~IsOk(storage_entry) THEN Ok(None)
             ELSE Ok(Some(from_slice(storage_entry.val)))

get_secret_id_storage_entry(s, ok, role_secret_id_prefix, role_name_hmac, secret_id_hmac) ==
    IF secret_id_hmac = EmptyStr THEN Err(MISSING_SECRET_ID_HMAC)
    ELSE IF role_name_hmac = EmptyStr THEN Err(MISSING_ROLE_NAME_HMAC)
    ELSE IF ~ok THEN Err(STORAGE_ERROR)
    ELSE LET storage_entry ==
                 StorageGet(s, EntryIndex(role_secret_id_prefix, role_name_hmac, secret_id_hmac))
         IN  IF ~IsOk(storage_entry) THEN Ok(None)
             ELSE Ok(Some(from_slice(storage_entry.val)))

\* The result and the store after the call.
set_secret_id_storage_entry(s, ok, role_secret_id_prefix, role_name_hmac, secret_id_hmac, secret_entry) ==
    IF role_secret_id_prefix = "" THEN [ret |-> Err(MISSING_PREFIX), storage |-> s]
    ELSE IF secret_id_hmac = EmptyStr THEN [ret |-> Err(MISSING_SECRET_ID_HMAC), storage |-> s]
    ELSE IF role_name_hmac = EmptyStr THEN [ret |-> Err(MISSING_ROLE_NAME_HMAC), storage |-> s]
    ELSE IF ~ok THEN [ret |-> Err(STORAGE_ERROR), storage |-> s]
    ELSE [ret |-> Ok(EmptyStr),
          storage |-> StoragePut(s, StorageEntryNew(
                         EntryIndex(role_secret_id_prefix, role_name_hmac, secret_id_hmac),
                         secret_entry))]

delete_secret_id_storage_entry(s, ok, role_secret_id_prefix, role_name_hmac, secret_id_hmac) ==
    IF secret_id_hmac = EmptyStr THEN [ret |-> Err(MISSING_SECRET_ID_HMAC), storage |-> s]
    ELSE IF role_name_hmac = EmptyStr THEN [ret |-> Err(MISSING_ROLE_NAME_HMAC), storage |-> s]
    ELSE IF ~ok THEN [ret |-> Err(STORAGE_ERROR), storage |-> s]
    ELSE [ret |-> Ok(EmptyStr),
          storage |-> StorageDelete(s,
                         EntryIndex(role_secret_id_prefix, role_name_hmac, secret_id_hmac))]

(***************************************************************************)
(* register_secret_id_entry.                                               *)
(***************************************************************************)
\* The history once the register call rec, which generated an accessor, returns.
Logged(rec, ret) ==
    Append(registered,
           [role |-> rec.role, sid |-> rec.sid, key |-> rec.key, prefix |-> rec.prefix,
            accessor |-> rec.entry.secret_id_accessor, ok |-> IsOk(ret)])

\* The positions of a register call that has yet to generate its uuid.
BeforeUuid == {"reg_rlock", "reg_check", "reg_wlock", "reg_recheck", "acc_create"}

\* The call: the two digests, then the lock of the secret-id digest.
RegisterCall(t, role_name, secret_id, hmac_key, role_secret_id_prefix, secret_entry) ==
    LET role_name_hmac == create_hmac(hmac_key, role_name)
        secret_id_hmac == create_hmac(hmac_key, secret_id)
        rec == [Idle EXCEPT !.op = "register", !.pc = "reg_call", !.role = role_name,
                            !.sid = secret_id, !.key = hmac_key,
                            !.prefix = role_secret_id_prefix, !.entry = secret_entry,
                            !.requested_ttl = secret_entry.secret_id_ttl]
    IN  /\ Free(t)
        /\ nextUuid + Cardinality({u \in Threads : th[u].pc \in BeforeUuid}) < MaxUuid
        /\ IF ~IsOk(role_name_hmac) THEN StartReturn(t, rec, role_name_hmac)
           ELSE IF ~IsOk(secret_id_hmac) THEN StartReturn(t, rec, secret_id_hmac)
           ELSE Start(t, [rec EXCEPT !.pc = "reg_rlock", !.rh = role_name_hmac.val,
                                     !.sh = secret_id_hmac.val])
        /\ UNCHANGED <<storage, salt, secret_id_locks, secret_id_accessor_locks,
                       nextUuid, registered, call>>

\* lock_entry.lock.read()
RegisterReadLock(t) ==
    /\ th[t].pc = "reg_rlock"
    /\ CanRead(secret_id_locks, get_lock(th[t].sh))
    /\ secret_id_locks' = secret_id_locks \cup {<<get_lock(th[t].sh), t, "read">>}
    /\ Step(t, [th[t] EXCEPT !.pc = "reg_check"])
    /\ UNCHANGED <<storage, salt, secret_id_accessor_locks, nextUuid,
                   registered, call>>

RegisterCheck_KeepLock(t, ok) ==
    LET entry == get_secret_id_storage_entry(storage, ok, th[t].prefix, th[t].rh, th[t].sh)
    IN  /\ th[t].pc = "reg_check"
        /\ IF ~IsOk(entry)
           THEN /\ Return(t, th[t], entry)
                /\ secret_id_locks' = Release(secret_id_locks, get_lock(th[t].sh), t)
           ELSE IF is_some(entry.val)
           THEN /\ Return(t, th[t], Err(ALREADY_REGISTERED))
                /\ secret_id_locks' = Release(secret_id_locks, get_lock(th[t].sh), t)
           ELSE /\ Step(t, [th[t] EXCEPT !.pc = "reg_wlock"])
                /\ UNCHANGED secret_id_locks
        /\ UNCHANGED <<storage, salt, secret_id_accessor_locks, nextUuid,
                       registered, call>>

\* The check under the shared lock, which is released when the block ends.
RegisterCheck(t, ok) ==
    LET entry == get_secret_id_storage_entry(storage, ok, th[t].prefix, th[t].rh, th[t].sh)
    IN  /\ th[t].pc = "reg_check"
        /\ secret_id_locks' = Release(secret_id_locks, get_lock(th[t].sh), t)
        /\ IF ~IsOk(entry) THEN Return(t, th[t], entry)
           ELSE IF is_some(entry.val) THEN Return(t, th[t], Err(ALREADY_REGISTERED))
           ELSE Step(t, [th[t] EXCEPT !.pc = "reg_wlock"])
        /\ UNCHANGED <<storage, salt, secret_id_accessor_locks, nextUuid,
                       registered, call>>

RegisterWriteLock_RoleLock(t) ==
    /\ th[t].pc = "reg_wlock"
    /\ CanWrite(secret_id_locks, get_lock(th[t].rh))
    /\ secret_id_locks' = secret_id_locks \cup {<<get_lock(th[t].rh), t, "write">>}
    /\ Step(t, [th[t] EXCEPT !.pc = "reg_recheck"])
    /\ UNCHANGED <<storage, salt, secret_id_accessor_locks, nextUuid,
                   registered, call>>

\* lock_entry.lock.write()
RegisterWriteLock(t) ==
    /\ th[t].pc = "reg_wlock"
    /\ CanWrite(secret_id_locks, get_lock(th[t].sh))
    /\ secret_id_locks' = secret_id_locks \cup {<<get_lock(th[t].sh), t, "write">>}
    /\ Step(t, [th[t] EXCEPT !.pc = "reg_recheck"])
    /\ UNCHANGED <<storage, salt, secret_id_accessor_locks, nextUuid,
                   registered, call>>

\* The entry as register stamps it at the instant now.
Stamp(secret_entry, now) ==
    LET ttl == derive_secret_id_ttl(secret_entry.secret_id_ttl)
        stamped == [secret_entry EXCEPT !.creation_time = now, !.last_updated_time = now]
    IN  IF as_secs(ttl) # 0
        THEN [stamped EXCEPT !.expiration_time = TimeAdd(now, ttl)]
        ELSE stamped

RegisterRecheck_NoRecheck(t, ok, now) ==
    /\ th[t].pc = "reg_recheck"
    /\ Step(t, [th[t] EXCEPT !.pc = "acc_create", !.entry = Stamp(th[t].entry, now)])
    /\ UNCHANGED <<storage, salt, secret_id_locks, secret_id_accessor_locks,
                   nextUuid, registered, call>>

RegisterRecheck_SetFirst(t, ok, now) ==
    LET entry == get_secret_id_storage_entry(storage, ok, th[t].prefix, th[t].rh, th[t].sh)
        put == set_secret_id_storage_entry(storage, TRUE, th[t].prefix, th[t].rh, th[t].sh,
                                           Stamp(th[t].entry, now))
    IN  /\ th[t].pc = "reg_recheck"
        /\ IF ~IsOk(entry) \/ is_some(entry.val)
           THEN /\ secret_id_locks' = Release(secret_id_locks, get_lock(th[t].sh), t)
                /\ Return(t, th[t], IF IsOk(entry) THEN Err(ALREADY_REGISTERED) ELSE entry)
                /\ UNCHANGED storage
           ELSE /\ Step(t, [th[t] EXCEPT !.pc = "acc_create",
                                         !.entry = Stamp(th[t].entry, now)])
                /\ storage' = put.storage
                /\ UNCHANGED secret_id_locks
        /\ UNCHANGED <<salt, secret_id_accessor_locks, nextUuid, registered, call>>

\* The recheck under the exclusive lock; the entry is stamped when it is absent.
RegisterRecheck(t, ok, now) ==
    LET entry == get_secret_id_storage_entry(storage, ok, th[t].prefix, th[t].rh, th[t].sh)
    IN  /\ th[t].pc = "reg_recheck"
        /\ IF ~IsOk(entry)
           THEN /\ secret_id_locks' = Release(secret_id_locks, get_lock(th[t].sh), t)
                /\ Return(t, th[t], entry)
           ELSE IF is_some(entry.val)
           THEN /\ secret_id_locks' = Release(secret_id_locks, get_lock(th[t].sh), t)
                /\ Return(t, th[t], Err(ALREADY_REGISTERED))
           ELSE /\ Step(t, [th[t] EXCEPT !.pc = "acc_create",
                                         !.entry = Stamp(th[t].entry, now)])
                /\ UNCHANGED secret_id_locks
        /\ UNCHANGED <<storage, salt, secret_id_accessor_locks, nextUuid,
                       registered, call>>

(***************************************************************************)
(* create_secret_id_accessor_entry, called by register under the exclusive *)
(* lock of the secret-id digest.  When it fails, register returns its      *)
(* error and the lock of the digest is released.                           *)
(***************************************************************************)
CreateAccessorBegin_FixedUuid(t) ==
    /\ th[t].pc = "acc_create"
    /\ nextUuid' = nextUuid + 1
    /\ LET rec == [th[t] EXCEPT !.entry.secret_id_accessor = generate_uuid(1)]
       IN  IF ~salt
           THEN /\ Return(t, rec, Err(NOT_INITIALIZED))
                /\ secret_id_locks' = Release(secret_id_locks, get_lock(th[t].sh), t)
                /\ registered' = Logged(rec, Err(NOT_INITIALIZED))
           ELSE /\ Step(t, [rec EXCEPT !.pc = "acc_wlock"])
                /\ UNCHANGED <<secret_id_locks, registered>>
    /\ UNCHANGED <<storage, salt, secret_id_accessor_locks, call>>

\* entry.secret_id_accessor = generate_uuid(), then the salt.
CreateAccessorBegin(t) ==
    /\ th[t].pc = "acc_create"
    /\ nextUuid' = nextUuid + 1
    /\ LET rec == [th[t] EXCEPT !.entry.secret_id_accessor = generate_uuid(nextUuid + 1)]
       IN  IF ~salt
           THEN /\ Return(t, rec, Err(NOT_INITIALIZED))
                /\ secret_id_locks' = Release(secret_id_locks, get_lock(th[t].sh), t)
                /\ registered' = Logged(rec, Err(NOT_INITIALIZED))
           ELSE /\ Step(t, [rec EXCEPT !.pc = "acc_wlock"])
                /\ UNCHANGED <<secret_id_locks, registered>>
    /\ UNCHANGED <<storage, salt, secret_id_accessor_locks, call>>

\* self.secret_id_accessor_locks.get_lock(accessor).lock.write()
CreateAccessorLock(t) ==
    /\ th[t].pc = "acc_wlock"
    /\ CanWrite(secret_id_accessor_locks, get_lock(th[t].entry.secret_id_accessor))
    /\ secret_id_accessor_locks' = secret_id_accessor_locks \cup
           {<<get_lock(th[t].entry.secret_id_accessor), t, "write">>}
    /\ Step(t, [th[t] EXCEPT !.pc = "acc_put"])
    /\ UNCHANGED <<storage, salt, secret_id_locks, nextUuid, registered, call>>

\* The accessor entry create_secret_id_accessor_entry writes.
AccessorRecord_WrongDigest(secret_id_accessor, secret_id_hmac, role_name_hmac, role_secret_id_prefix) ==
    StorageEntryNew(AccessorIndex(secret_id_accessor, role_secret_id_prefix),
                    SecretIdAccessorStorageEntry(role_name_hmac))

AccessorRecord(secret_id_accessor, secret_id_hmac, role_name_hmac, role_secret_id_prefix) ==
    StorageEntryNew(AccessorIndex(secret_id_accessor, role_secret_id_prefix),
                    SecretIdAccessorStorageEntry(secret_id_hmac))

CreateAccessorPut_NoPut(t, ok) ==
    /\ th[t].pc = "acc_put"
    /\ secret_id_accessor_locks' =
           Release(secret_id_accessor_locks, get_lock(th[t].entry.secret_id_accessor), t)
    /\ Step(t, [th[t] EXCEPT !.pc = "reg_set"])
    /\ UNCHANGED <<storage, salt, secret_id_locks, nextUuid, registered, call>>

CreateAccessorPut_KeepLock(t, ok) ==
    /\ th[t].pc = "acc_put"
    /\ IF ok
       THEN /\ storage' = StoragePut(storage,
                              AccessorRecord(th[t].entry.secret_id_accessor, th[t].sh,
                                             th[t].rh, th[t].prefix))
            /\ Step(t, [th[t] EXCEPT !.pc = "reg_set"])
            /\ UNCHANGED <<secret_id_locks, registered>>
       ELSE /\ Return(t, th[t], Err(STORAGE_ERROR))
            /\ secret_id_locks' = Release(secret_id_locks, get_lock(th[t].sh), t)
            /\ registered' = Logged(th[t], Err(STORAGE_ERROR))
            /\ UNCHANGED storage
    /\ UNCHANGED <<salt, secret_id_accessor_locks, nextUuid, call>>

\* storage.put(&entry); the accessor lock is released on return.
CreateAccessorPut(t, ok) ==
    /\ th[t].pc = "acc_put"
    /\ secret_id_accessor_locks' =
           Release(secret_id_accessor_locks, get_lock(th[t].entry.secret_id_accessor), t)
    /\ IF ok
       THEN /\ storage' = StoragePut(storage,
                              AccessorRecord(th[t].entry.secret_id_accessor, th[t].sh,
                                             th[t].rh, th[t].prefix))
            /\ Step(t, [th[t] EXCEPT !.pc = "reg_set"])
            /\ UNCHANGED <<secret_id_locks, registered>>
       ELSE /\ Return(t, th[t], Err(STORAGE_ERROR))
            /\ secret_id_locks' = Release(secret_id_locks, get_lock(th[t].sh), t)
            /\ registered' = Logged(th[t], Err(STORAGE_ERROR))
            /\ UNCHANGED storage
    /\ UNCHANGED <<salt, nextUuid, call>>

RegisterSet_IgnoreError(t, ok) ==
    LET put == set_secret_id_storage_entry(storage, ok, th[t].prefix, th[t].rh, th[t].sh,
                                           th[t].entry)
    IN  /\ th[t].pc = "reg_set"
        /\ storage' = put.storage
        /\ secret_id_locks' = Release(secret_id_locks, get_lock(th[t].sh), t)
        /\ Return(t, th[t], Ok(EmptyStr))
        /\ registered' = Logged(th[t], Ok(EmptyStr))
        /\ UNCHANGED <<salt, secret_id_accessor_locks, nextUuid, call>>

\* set_secret_id_storage_entry, then Ok(()); the lock of the digest is released.
RegisterSet(t, ok) ==
    LET put == set_secret_id_storage_entry(storage, ok, th[t].prefix, th[t].rh, th[t].sh,
                                           th[t].entry)
    IN  /\ th[t].pc = "reg_set"
        /\ storage' = put.storage
        /\ secret_id_locks' = Release(secret_id_locks, get_lock(th[t].sh), t)
        /\ Return(t, th[t], put.ret)
        /\ registered' = Logged(th[t], put.ret)
        /\ UNCHANGED <<salt, secret_id_accessor_locks, nextUuid, call>>

(***************************************************************************)
(* flush_role_secrets.                                                     *)
(***************************************************************************)
\* The orders in which storage.list may return a set of names.
RECURSIVE Orders(_)
Orders(S) ==
    IF S = {} THEN {<<>>}
    ELSE UNION {{<<x>> \o rest : rest \in Orders(S \ {x})} : x \in S}

\* The step before was the return of a flush with the same arguments that
\* stopped at a failed delete.
Resumes(role_name, hmac_key, role_secret_id_prefix) ==
    /\ last.pc = "done"
    /\ last.op = "flush"
    /\ last.from = "flush_delete"
    /\ ~IsOk(last.ret)
    /\ last.role = role_name
    /\ last.key = hmac_key
    /\ last.prefix = role_secret_id_prefix

FlushCall_ErrorOnEmpty(t, role_name, hmac_key, role_secret_id_prefix, ok) ==
    LET role_name_hmac == create_hmac(hmac_key, role_name)
        rec == [Idle EXCEPT !.op = "flush", !.pc = "flush_call", !.role = role_name,
                            !.key = hmac_key, !.prefix = role_secret_id_prefix,
                            !.alone = \A u \in Threads \ {t} : ~Busy(u),
                            !.resumed =
                                /\ \A u \in Threads \ {t} : ~Busy(u)
                                /\ Resumes(role_name, hmac_key, role_secret_id_prefix)]
    IN  /\ Free(t)
        /\ IF ~IsOk(role_name_hmac) THEN StartReturn(t, rec, role_name_hmac)
           ELSE IF ~ok THEN StartReturn(t, rec, Err(STORAGE_ERROR))
           ELSE \E secret_id_hmacs \in
                    Orders(StorageList(storage, role_secret_id_prefix, role_name_hmac.val)) :
                  LET listed == [rec EXCEPT !.rh = role_name_hmac.val,
                                            !.list = secret_id_hmacs,
                                            !.snap = StorageList(storage, role_secret_id_prefix,
                                                                 role_name_hmac.val)]
                  IN  IF secret_id_hmacs = <<>>
                      THEN StartReturn(t, listed, Err("no secret_id found"))
                      ELSE Start(t, [listed EXCEPT !.pc = "flush_lock"])
        /\ UNCHANGED <<storage, salt, secret_id_locks, secret_id_accessor_locks,
                       nextUuid, registered, call>>

\* The call: the digest of the role, then the list of its secret-id digests.
FlushCall(t, role_name, hmac_key, role_secret_id_prefix, ok) ==
    LET role_name_hmac == create_hmac(hmac_key, role_name)
        rec == [Idle EXCEPT !.op = "flush", !.pc = "flush_call", !.role = role_name,
                            !.key = hmac_key, !.prefix = role_secret_id_prefix,
                            !.alone = \A u \in Threads \ {t} : ~Busy(u),
                            !.resumed =
                                /\ \A u \in Threads \ {t} : ~Busy(u)
                                /\ Resumes(role_name, hmac_key, role_secret_id_prefix)]
    IN  /\ Free(t)
        /\ IF ~IsOk(role_name_hmac) THEN StartReturn(t, rec, role_name_hmac)
           ELSE IF ~ok THEN StartReturn(t, rec, Err(STORAGE_ERROR))
           ELSE \E secret_id_hmacs \in
                    Orders(StorageList(storage, role_secret_id_prefix, role_name_hmac.val)) :
                  LET listed == [rec EXCEPT !.rh = role_name_hmac.val,
                                            !.list = secret_id_hmacs,
                                            !.snap = StorageList(storage, role_secret_id_prefix,
                                                                 role_name_hmac.val)]
                  IN  IF secret_id_hmacs = <<>>
                      THEN StartReturn(t, listed, Ok(EmptyStr))
                      ELSE Start(t, [listed EXCEPT !.pc = "flush_lock"])
        /\ UNCHANGED <<storage, salt, secret_id_locks, secret_id_accessor_locks,
                       nextUuid, registered, call>>

FlushLock_Shared(t) ==
    /\ th[t].pc = "flush_lock"
    /\ CanRead(secret_id_locks, get_lock(Head(th[t].list)))
    /\ secret_id_locks' = secret_id_locks \cup {<<get_lock(Head(th[t].list)), t, "read">>}
    /\ Step(t, [th[t] EXCEPT !.pc = "flush_delete"])
    /\ UNCHANGED <<storage, salt, secret_id_accessor_locks, nextUuid,
                   registered, call>>

\* lock_entry.lock.write() for the next digest of the list
FlushLock(t) ==
    /\ th[t].pc = "flush_lock"
    /\ CanWrite(secret_id_locks, get_lock(Head(th[t].list)))
    /\ secret_id_locks' = secret_id_locks \cup {<<get_lock(Head(th[t].list)), t, "write">>}
    /\ Step(t, [th[t] EXCEPT !.pc = "flush_delete"])
    /\ UNCHANGED <<storage, salt, secret_id_accessor_locks, nextUuid,
                   registered, call>>

FlushDelete_StopAfterFirst(t, ok) ==
    /\ th[t].pc = "flush_delete"
    /\ secret_id_locks' = Release(secret_id_locks, get_lock(Head(th[t].list)), t)
    /\ IF ~ok
       THEN /\ Return(t, th[t], Err(STORAGE_ERROR))
            /\ UNCHANGED storage
       ELSE /\ storage' = StorageDelete(storage,
                              EntryIndex(th[t].prefix, th[t].rh, Head(th[t].list)))
            /\ Return(t, [th[t] EXCEPT !.list = Tail(th[t].list)], Ok(EmptyStr))
    /\ UNCHANGED <<salt, secret_id_accessor_locks, nextUuid, registered, call>>

FlushDelete_WithAccessor(t, ok) ==
    LET entry_index == EntryIndex(th[t].prefix, th[t].rh, Head(th[t].list))
        without == StorageDelete(storage, entry_index)
    IN  /\ th[t].pc = "flush_delete"
        /\ secret_id_locks' = Release(secret_id_locks, get_lock(Head(th[t].list)), t)
        /\ IF ~ok
           THEN /\ Return(t, th[t], Err(STORAGE_ERROR))
                /\ UNCHANGED storage
           ELSE /\ storage' =
                      IF entry_index \in DOMAIN storage
                      THEN StorageDelete(without,
                               AccessorIndex(from_slice(storage[entry_index]).secret_id_accessor,
                                             th[t].prefix))
                      ELSE without
                /\ IF Tail(th[t].list) = <<>>
                   THEN Return(t, [th[t] EXCEPT !.list = <<>>], Ok(EmptyStr))
                   ELSE Step(t, [th[t] EXCEPT !.list = Tail(th[t].list), !.pc = "flush_lock"])
        /\ UNCHANGED <<salt, secret_id_accessor_locks, nextUuid, registered, call>>

FlushDelete_DeleteRole(t, ok) ==
    /\ th[t].pc = "flush_delete"
    /\ secret_id_locks' = Release(secret_id_locks, get_lock(Head(th[t].list)), t)
    /\ IF ~ok
       THEN /\ Return(t, th[t], Err(STORAGE_ERROR))
            /\ UNCHANGED storage
       ELSE /\ storage' = [k \in {j \in DOMAIN storage :
                                    ~(j[1] = th[t].prefix /\ j[2] = th[t].rh)} |-> storage[k]]
            /\ IF Tail(th[t].list) = <<>>
               THEN Return(t, [th[t] EXCEPT !.list = <<>>], Ok(EmptyStr))
               ELSE Step(t, [th[t] EXCEPT !.list = Tail(th[t].list), !.pc = "flush_lock"])
    /\ UNCHANGED <<salt, secret_id_accessor_locks, nextUuid, registered, call>>

\* storage.delete(&entry_index)?; the lock is released when the iteration ends.
FlushDelete(t, ok) ==
    /\ th[t].pc = "flush_delete"
    /\ secret_id_locks' = Release(secret_id_locks, get_lock(Head(th[t].list)), t)
    /\ IF ~ok
       THEN /\ Return(t, th[t], Err(STORAGE_ERROR))
            /\ UNCHANGED storage
       ELSE /\ storage' = StorageDelete(storage,
                              EntryIndex(th[t].prefix, th[t].rh, Head(th[t].list)))
            /\ IF Tail(th[t].list) = <<>>
               THEN Return(t, [th[t] EXCEPT !.list = <<>>], Ok(EmptyStr))
               ELSE Step(t, [th[t] EXCEPT !.list = Tail(th[t].list), !.pc = "flush_lock"])
    /\ UNCHANGED <<salt, secret_id_accessor_locks, nextUuid, registered, call>>

(***************************************************************************)
(* delete_secret_id_storage_entry as an operation of its own: one storage  *)
(* access, no lock.                                                        *)
(***************************************************************************)
DeleteEntryCall(t, role_secret_id_prefix, role_name_hmac, secret_id_hmac, ok) ==
    LET del == delete_secret_id_storage_entry(storage, ok, role_secret_id_prefix,
                                              role_name_hmac, secret_id_hmac)
        rec == [Idle EXCEPT !.op = "delete_entry", !.pc = "del_call",
                            !.prefix = role_secret_id_prefix, !.rh = role_name_hmac,
                            !.sh = secret_id_hmac]
    IN  /\ Free(t)
        /\ storage' = del.storage
        /\ StartReturn(t, rec, del.ret)
        /\ UNCHANGED <<salt, secret_id_locks, secret_id_accessor_locks, nextUuid,
                       registered, call>>

(***************************************************************************)
(* get_secret_id_accessor_entry and delete_secret_id_accessor_entry.       *)
(***************************************************************************)
\* The accessors a caller may pass: none, and those a finished register call
\* handed out in its entry (a uuid in flight is known to nobody yet).
InFlightAccessors ==
    {th[t].entry.secret_id_accessor : t \in {u \in Threads : Busy(u)}}
AccessorInputs ==
    {EmptyStr} \cup
    ({generate_uuid(n) : n \in 1..nextUuid} \ InFlightAccessors)

\* The read of get_secret_id_accessor_entry in store s.
ReadAccessorEntry(s, ok, secret_id_accessor, role_secret_id_prefix) ==
    IF ~ok THEN Err(STORAGE_ERROR)
    ELSE LET storage_entry == StorageGet(s, AccessorIndex(secret_id_accessor,
                                                          role_secret_id_prefix))
         IN  IF ~IsOk(storage_entry) THEN Ok(None)
             ELSE Ok(Some(from_slice(storage_entry.val)))

\* What get_secret_id_accessor_entry returns when it runs in store s.
get_secret_id_accessor_entry(s, has_salt, ok, secret_id_accessor, role_secret_id_prefix) ==
    IF secret_id_accessor = EmptyStr THEN Err(MISSING_ACCESSOR)
    ELSE IF ~has_salt THEN Err(NOT_INITIALIZED)
    ELSE ReadAccessorEntry(s, ok, secret_id_accessor, role_secret_id_prefix)

GetAccessorCall(t, secret_id_accessor, role_secret_id_prefix) ==
    LET rec == [Idle EXCEPT !.op = "get_accessor", !.pc = "getacc_call",
                            !.acc = secret_id_accessor, !.prefix = role_secret_id_prefix]
    IN  /\ Free(t)
        /\ IF secret_id_accessor = EmptyStr THEN StartReturn(t, rec, Err(MISSING_ACCESSOR))
           ELSE IF ~salt THEN StartReturn(t, rec, Err(NOT_INITIALIZED))
           ELSE Start(t, [rec EXCEPT !.pc = "getacc_rlock"])
        /\ UNCHANGED <<storage, salt, secret_id_locks, secret_id_accessor_locks,
                       nextUuid, registered, call>>

GetAccessorLock(t) ==
    /\ th[t].pc = "getacc_rlock"
    /\ CanRead(secret_id_accessor_locks, get_lock(th[t].acc))
    /\ secret_id_accessor_locks' = secret_id_accessor_locks \cup
           {<<get_lock(th[t].acc), t, "read">>}
    /\ Step(t, [th[t] EXCEPT !.pc = "getacc_read"])
    /\ UNCHANGED <<storage, salt, secret_id_locks, nextUuid, registered, call>>

GetAccessorRead(t, ok) ==
    /\ th[t].pc = "getacc_read"
    /\ secret_id_accessor_locks' =
           Release(secret_id_accessor_locks, get_lock(th[t].acc), t)
    /\ Return(t, th[t], ReadAccessorEntry(storage, ok, th[t].acc, th[t].prefix))
    /\ UNCHANGED <<storage, salt, secret_id_locks, nextUuid, registered, call>>

DeleteAccessorCall(t, secret_id_accessor, role_secret_id_prefix) ==
    LET rec == [Idle EXCEPT !.op = "delete_accessor", !.pc = "delacc_call",
                            !.acc = secret_id_accessor, !.prefix = role_secret_id_prefix]
    IN  /\ Free(t)
        /\ IF ~salt THEN StartReturn(t, rec, Err(NOT_INITIALIZED))
           ELSE Start(t, [rec EXCEPT !.pc = "delacc_wlock"])
        /\ UNCHANGED <<storage, salt, secret_id_locks, secret_id_accessor_locks,
                       nextUuid, registered, call>>

DeleteAccessorLock(t) ==
    /\ th[t].pc = "delacc_wlock"
    /\ CanWrite(secret_id_accessor_locks, get_lock(th[t].acc))
    /\ secret_id_accessor_locks' = secret_id_accessor_locks \cup
           {<<get_lock(th[t].acc), t, "write">>}
    /\ Step(t, [th[t] EXCEPT !.pc = "delacc_delete"])
    /\ UNCHANGED <<storage, salt, secret_id_locks, nextUuid, registered, call>>

DeleteAccessorDelete(t, ok) ==
    /\ th[t].pc = "delacc_delete"
    /\ secret_id_accessor_locks' =
           Release(secret_id_accessor_locks, get_lock(th[t].acc), t)
    /\ IF ok
       THEN /\ storage' = StorageDelete(storage, AccessorIndex(th[t].acc, th[t].prefix))
            /\ Return(t, th[t], Ok(EmptyStr))
       ELSE /\ Return(t, th[t], Err(STORAGE_ERROR))
            /\ UNCHANGED storage
    /\ UNCHANGED <<salt, secret_id_locks, nextUuid, registered, call>>

\* The backend's initialisation stores the salt.
InitSalt ==
    /\ ~salt
    /\ salt' = TRUE
    /\ last' = Idle
    /\ UNCHANGED <<storage, secret_id_locks, secret_id_accessor_locks, th, nextUuid,
                   registered, call>>

(***************************************************************************)
(* The program.                                                            *)
(***************************************************************************)
\* The calls tried under Spec: two secret-ids of one role, a second role under
\* the local prefix, an empty hmac key and an empty prefix.
DefaultEntry == SecretIdStorageEntry(EmptyStr, Dur(MaxLeaseSecs + 1, 0), CallerTime,
                                     CallerTime, CallerTime)
RegisterInputs ==
    {<<a[1], a[2], a[3], a[4], DefaultEntry>> :
        a \in {<<R1, S1, "k", SECRET_ID_PREFIX>>, <<R1, S2, "k", SECRET_ID_PREFIX>>,
               <<R2, S1, "k", SECRET_ID_LOCAL_PREFIX>>, <<R1, S1, "", SECRET_ID_PREFIX>>,
               <<R1, S1, "k", "">>}}

FlushInputs ==
    {<<R1, "k", SECRET_ID_PREFIX>>, <<R2, "k", SECRET_ID_LOCAL_PREFIX>>,
     <<R1, "", SECRET_ID_PREFIX>>}

DeleteEntryInputs ==
    {<<SECRET_ID_PREFIX, create_hmac("k", R1).val, create_hmac("k", S1).val>>,
     <<SECRET_ID_PREFIX, create_hmac("k", R1).val, EmptyStr>>}

AccessorPrefixInputs == {SECRET_ID_PREFIX}

Register(t) ==
    \/ \E a \in RegisterInputs : RegisterCall(t, a[1], a[2], a[3], a[4], a[5])
    \/ RegisterReadLock(t)
    \/ \E ok \in BOOLEAN : RegisterCheck(t, ok)
    \/ RegisterWriteLock(t)
    \/ \E ok \in BOOLEAN, now \in NowValues : RegisterRecheck(t, ok, now)
    \/ CreateAccessorBegin(t)
    \/ CreateAccessorLock(t)
    \/ \E ok \in BOOLEAN : CreateAccessorPut(t, ok)
    \/ \E ok \in BOOLEAN : RegisterSet(t, ok)

Flush(t) ==
    \/ \E a \in FlushInputs, ok \in BOOLEAN : FlushCall(t, a[1], a[2], a[3], ok)
    \/ FlushLock(t)
    \/ \E ok \in BOOLEAN : FlushDelete(t, ok)

DeleteEntry(t) ==
    \E a \in DeleteEntryInputs, ok \in BOOLEAN : DeleteEntryCall(t, a[1], a[2], a[3], ok)

GetAccessor(t) ==
    \/ \E secret_id_accessor \in AccessorInputs,
             role_secret_id_prefix \in AccessorPrefixInputs :
          GetAccessorCall(t, secret_id_accessor, role_secret_id_prefix)
    \/ GetAccessorLock(t)
    \/ \E ok \in BOOLEAN : GetAccessorRead(t, ok)

DeleteAccessor(t) ==
    \/ \E secret_id_accessor \in AccessorInputs,
             role_secret_id_prefix \in AccessorPrefixInputs :
          DeleteAccessorCall(t, secret_id_accessor, role_secret_id_prefix)
    \/ DeleteAccessorLock(t)
    \/ \E ok \in BOOLEAN : DeleteAccessorDelete(t, ok)

Next ==
    \/ InitSalt
    \/ \E t \in Threads : Register(t)
    \/ \E t \in Threads : Flush(t)
    \/ \E t \in Threads : DeleteEntry(t)
    \/ \E t \in Threads : GetAccessor(t)
    \/ \E t \in Threads : DeleteAccessor(t)

Spec == Init /\ [][Next]_vars

(***************************************************************************)
(* Registration alone, on an initialised backend with a storage that never *)
(* fails: every error of the arguments and every requested lifetime.       *)
(***************************************************************************)
RegisterInputsAll ==
    {<<R1, S1, "k", SECRET_ID_PREFIX, e>> : e \in EntryInputs} \cup
    {<<a[1], a[2], a[3], a[4], NoEntry>> :
        a \in {<<R1, S2, "k", SECRET_ID_PREFIX>>, <<R2, S1, "k", SECRET_ID_LOCAL_PREFIX>>,
               <<R1, S1, "", SECRET_ID_PREFIX>>, <<LongRole, S1, "k", SECRET_ID_PREFIX>>,
               <<R1, LongSecret, "k", SECRET_ID_PREFIX>>, <<R1, S1, "k", "">>}}

InitRegister ==
    /\ storage = <<>>
    /\ salt = TRUE
    /\ secret_id_locks = {}
    /\ secret_id_accessor_locks = {}
    /\ th = [t \in Threads |-> Idle]
    /\ nextUuid = 0
    /\ last = Idle
    /\ registered = <<>>
    /\ call = NoCall

RegisterOnly(t) ==
    \/ \E a \in RegisterInputsAll : RegisterCall(t, a[1], a[2], a[3], a[4], a[5])
    \/ RegisterReadLock(t)
    \/ RegisterCheck(t, TRUE)
    \/ RegisterWriteLock(t)
    \/ \E now \in NowValues : RegisterRecheck(t, TRUE, now)
    \/ CreateAccessorBegin(t)
    \/ CreateAccessorLock(t)
    \/ CreateAccessorPut(t, TRUE)
    \/ RegisterSet(t, TRUE)

NextRegister == \E t \in Threads : RegisterOnly(t)

SpecRegister == InitRegister /\ [][NextRegister]_vars

(***************************************************************************)
(* The program without delete_secret_id_accessor_entry: registration,      *)
(* flush and deletion of entries, with a storage that may fail.            *)
(***************************************************************************)
NextNoAccessorDelete ==
    \/ InitSalt
    \/ \E t \in Threads : Register(t)
    \/ \E t \in Threads : Flush(t)
    \/ \E t \in Threads : DeleteEntry(t)

SpecNoAccessorDelete == Init /\ [][NextNoAccessorDelete]_vars

(***************************************************************************)
(* The life of the entries on an initialised backend whose storage never   *)
(* fails, with arguments that are valid: registration, flush and deletion  *)
(* of entries.                                                             *)
(***************************************************************************)
LifecycleRegisterInputs ==
    {<<a[1], a[2], a[3], a[4], DefaultEntry>> :
        a \in {<<R1, S1, "k", SECRET_ID_PREFIX>>, <<R1, S2, "k", SECRET_ID_PREFIX>>,
               <<R2, S1, "k", SECRET_ID_LOCAL_PREFIX>>}}
LifecycleFlushInputs ==
    {<<R1, "k", SECRET_ID_PREFIX>>, <<R2, "k", SECRET_ID_LOCAL_PREFIX>>}
LifecycleDeleteInputs ==
    {<<SECRET_ID_PREFIX, create_hmac("k", R1).val, create_hmac("k", S1).val>>}

Lifecycle(t) ==
    \/ \E a \in LifecycleRegisterInputs : RegisterCall(t, a[1], a[2], a[3], a[4], a[5])
    \/ RegisterReadLock(t)
    \/ RegisterCheck(t, TRUE)
    \/ RegisterWriteLock(t)
    \/ \E now \in NowValues : RegisterRecheck(t, TRUE, now)
    \/ CreateAccessorBegin(t)
    \/ CreateAccessorLock(t)
    \/ CreateAccessorPut(t, TRUE)
    \/ RegisterSet(t, TRUE)
    \/ \E a \in LifecycleFlushInputs : FlushCall(t, a[1], a[2], a[3], TRUE)
    \/ FlushLock(t)
    \/ FlushDelete(t, TRUE)
    \/ \E a \in LifecycleDeleteInputs : DeleteEntryCall(t, a[1], a[2], a[3], TRUE)

NextLifecycle == \E t \in Threads : Lifecycle(t)

SpecLifecycle == InitRegister /\ [][NextLifecycle]_vars

(***************************************************************************)
(* Calls of the pure functions derive_secret_id_ttl and create_hmac (the   *)
(* latter called twice with the same arguments).                           *)
(***************************************************************************)
DurationInputs == {Dur(secs, nanos) : secs \in 0..MaxDurSecs, nanos \in {0, 500000000}}

\* Keys and values of create_hmac: no key, two keys; two texts of every length
\* around the maximum, and the empty value.
HmacKeyInputs == {"", "k", "k2"}
HmacValueInputs ==
    {Str("", 0)} \cup
    {Str(txt, len) : txt \in {"a", "b"},
                     len \in {1, MAX_HMAC_INPUT_LENGTH - 1, MAX_HMAC_INPUT_LENGTH,
                              MAX_HMAC_INPUT_LENGTH + 1, 2 * MAX_HMAC_INPUT_LENGTH}}

InitPure ==
    /\ storage = <<>>
    /\ salt = FALSE
    /\ secret_id_locks = {}
    /\ secret_id_accessor_locks = {}
    /\ th = [t \in Threads |-> Idle]
    /\ nextUuid = 0
    /\ last = Idle
    /\ registered = <<>>
    /\ call \in {[fn |-> "derive_secret_id_ttl", stage |-> "called", arg |-> d,
                   ret |-> Dur(0, 0), again |-> Dur(0, 0)] : d \in DurationInputs}
                \cup
                {[fn |-> "create_hmac", stage |-> "called",
                  arg |-> [key |-> k, value |-> v], ret |-> NoRet, again |-> NoRet] :
                    k \in HmacKeyInputs, v \in HmacValueInputs}

DeriveTtlCall ==
    /\ call.fn = "derive_secret_id_ttl"
    /\ call.stage = "called"
    /\ call' = [call EXCEPT !.stage = "returned", !.ret = derive_secret_id_ttl(call.arg)]
    /\ UNCHANGED <<storage, salt, secret_id_locks, secret_id_accessor_locks, th,
                   nextUuid, last, registered>>

\* create_hmac(key, value), and the same call once more.
HmacCall ==
    /\ call.fn = "create_hmac"
    /\ call.stage = "called"
    /\ call' = [call EXCEPT !.stage = "returned",
                            !.ret = create_hmac(call.arg.key, call.arg.value)]
    /\ UNCHANGED <<storage, salt, secret_id_locks, secret_id_accessor_locks, th,
                   nextUuid, last, registered>>

HmacRepeat ==
    /\ call.fn = "create_hmac"
    /\ call.stage = "returned"
    /\ call' = [call EXCEPT !.stage = "repeated",
                            !.again = create_hmac(call.arg.key, call.arg.value)]
    /\ UNCHANGED <<storage, salt, secret_id_locks, secret_id_accessor_locks, th,
                   nextUuid, last, registered>>

NextPure ==
    \/ DeriveTtlCall
    \/ HmacCall
    \/ HmacRepeat

SpecPure == InitPure /\ [][NextPure]_vars

(***************************************************************************)
(* The operations that take locks, on an initialised backend, under a fair *)
(* scheduler: a caller whose operation can go on takes its next step.  The *)
(* callers start any number of operations, but not operations without end: *)
(* a reader/writer lock promises no order among its waiters, so that an    *)
(* endless stream of new readers could keep a writer waiting.  A caller of *)
(* the accessor operations may pass any accessor, one that a register call *)
(* is about to generate too.                                               *)
(***************************************************************************)
LiveRegisterInputs ==
    {<<a[1], a[2], a[3], a[4], DefaultEntry>> :
        a \in {<<R1, S1, "k", SECRET_ID_PREFIX>>, <<R1, S2, "k", SECRET_ID_PREFIX>>,
               <<R1, S1, "k", "">>}}
LiveFlushInputs == {<<R1, "k", SECRET_ID_PREFIX>>}
LiveAccessorInputs == {generate_uuid(n) : n \in 1..MaxUuid}

\* The steps of an operation that thread t has started.
Continue(t) ==
    \/ RegisterReadLock(t)
    \/ \E ok \in BOOLEAN : RegisterCheck(t, ok)
    \/ RegisterWriteLock(t)
    \/ \E ok \in BOOLEAN, now \in NowValues : RegisterRecheck(t, ok, now)
    \/ CreateAccessorBegin(t)
    \/ CreateAccessorLock(t)
    \/ \E ok \in BOOLEAN : CreateAccessorPut(t, ok)
    \/ \E ok \in BOOLEAN : RegisterSet(t, ok)
    \/ FlushLock(t)
    \/ \E ok \in BOOLEAN : FlushDelete(t, ok)
    \/ GetAccessorLock(t)
    \/ \E ok \in BOOLEAN : GetAccessorRead(t, ok)
    \/ DeleteAccessorLock(t)
    \/ \E ok \in BOOLEAN : DeleteAccessorDelete(t, ok)

\* The calls thread t may make.
LiveCall(t) ==
    \/ \E a \in LiveRegisterInputs : RegisterCall(t, a[1], a[2], a[3], a[4], a[5])
    \/ \E a \in LiveFlushInputs, ok \in BOOLEAN : FlushCall(t, a[1], a[2], a[3], ok)
    \/ \E secret_id_accessor \in LiveAccessorInputs :
          GetAccessorCall(t, secret_id_accessor, SECRET_ID_PREFIX)
    \/ \E secret_id_accessor \in LiveAccessorInputs :
          DeleteAccessorCall(t, secret_id_accessor, SECRET_ID_PREFIX)

NextLive ==
    \/ \E t \in Threads : LiveCall(t)
    \/ \E t \in Threads : Continue(t)

SpecLive ==
    /\ InitRegister
    /\ [][NextLive]_vars
    /\ \A t \in Threads : WF_vars(Continue(t))
    /\ <>[][\E t \in Threads : Continue(t)]_vars

(***************************************************************************)
(* Properties.                                                             *)
(***************************************************************************)
RegisterReturned == last.pc = "done" /\ last.op = "register"
FlushReturned == last.pc = "done" /\ last.op = "flush"
AlreadyRegistered(c) == IsErr(c.ret, ALREADY_REGISTERED)

\* The arguments with which register can succeed.
ValidArguments(c) ==
    /\ c.key # ""
    /\ c.role.len <= MAX_HMAC_INPUT_LENGTH
    /\ c.sid.len <= MAX_HMAC_INPUT_LENGTH
    /\ c.prefix # ""
PairOf(c) == <<c.role, c.sid, c.key, c.prefix>>
IndexOf(c) ==
    EntryIndex(c.prefix, create_hmac(c.key, c.role).val, create_hmac(c.key, c.sid).val)

\* The keys of the two kinds of records in the store.
EntryKeys == {k \in DOMAIN storage : k[1] \in {SECRET_ID_PREFIX, SECRET_ID_LOCAL_PREFIX}}
AccessorKeys ==
    {k \in DOMAIN storage : k[1] \in {SECRET_ID_ACCESSOR_PREFIX, SECRET_ID_ACCESSOR_LOCAL_PREFIX}}

\* The accessor entry of the SecretIdStorageEntry stored at k is stored.
HasAccessor(k) ==
    AccessorIndex(from_slice(storage[k]).secret_id_accessor, k[1]) \in DOMAIN storage
\* ... and names the digest of k.
AccessorNames(k) ==
    /\ HasAccessor(k)
    /\ from_slice(storage[AccessorIndex(from_slice(storage[k]).secret_id_accessor, k[1])])
           .secret_id_hmac = k[3]
\* The SecretIdStorageEntry the accessor entry at key a refers to is stored.
HasEntry(a) ==
    \E k \in EntryKeys :
        /\ AccessorPrefix(k[1]) = a[1]
        /\ k[3] = from_slice(storage[a]).secret_id_hmac
        /\ salt_id(from_slice(storage[k]).secret_id_accessor) = a[2]

\* What a register call that returned says of its pair: one call of the pair
\* generated an accessor, it succeeded, and its two records are stored.
OneRegistration(c) ==
    LET mine == {i \in DOMAIN registered : PairOf(registered[i]) = PairOf(c)}
    IN  /\ IsOk(c.ret) \/ AlreadyRegistered(c)
        /\ Cardinality(mine) = 1
        /\ \A i \in mine :
              /\ registered[i].ok
              /\ IndexOf(c) \in DOMAIN storage
              /\ from_slice(storage[IndexOf(c)]).secret_id_accessor = registered[i].accessor
              /\ AccessorNames(IndexOf(c))
        /\ AlreadyRegistered(c) => c.entry.secret_id_accessor = EmptyStr

\* C1 (as amended): with a non-empty hmac key and prefix and a role name and
\* secret-id of at most 4096 bytes, on an initialised backend whose storage
\* never fails and with no delete or flush, no pair is registered twice, and
\* every register call of a pair that returns returns success or 'secret_id is
\* already registered', after exactly one call of the pair succeeded: that call
\* is the only one that generated an accessor, its SecretIdEntry and its
\* AccessorEntry are stored, and a rejected call was given no accessor.
C1_Uniqueness ==
    /\ \A i, j \in DOMAIN registered :
          (i # j /\ registered[i].ok /\ registered[j].ok)
              => PairOf(registered[i]) # PairOf(registered[j])
    /\ (RegisterReturned /\ ValidArguments(last)) => OneRegistration(last)

\* C1 as stated, for every hmac key and prefix: a register call that returns
\* while another call of the same pair runs returns success or 'already
\* registered', exactly one call of the pair having succeeded.
C1_Original ==
    (RegisterReturned /\ \E t \in Threads : Busy(t) /\ PairOf(th[t]) = PairOf(last))
        => OneRegistration(last)

\* A call lost the race: it passed the shared check and was rejected by the
\* recheck under the exclusive lock.
C1_Witness ==
    /\ RegisterReturned
    /\ ValidArguments(last)
    /\ AlreadyRegistered(last)
    /\ last.from = "reg_recheck"

\* C2: when register returns success, get_secret_id_accessor_entry of the
\* accessor it assigned, with the same prefix, returns an AccessorEntry whose
\* secret_id_hmac is create_hmac(key, secret_id), and the SecretIdEntry stored
\* at prefix/role_hmac/secret_id_hmac carries that accessor.
C2_AccessorBijection ==
    (RegisterReturned /\ IsOk(last.ret)) =>
        LET got == get_secret_id_accessor_entry(storage, salt, TRUE,
                                                last.entry.secret_id_accessor, last.prefix)
            stored == get_secret_id_storage_entry(storage, TRUE, last.prefix,
                          create_hmac(last.key, last.role).val,
                          create_hmac(last.key, last.sid).val)
        IN  /\ IsOk(got)
            /\ is_some(got.val)
            /\ got.val.val.secret_id_hmac = create_hmac(last.key, last.sid).val
            /\ IsOk(stored)
            /\ is_some(stored.val)
            /\ stored.val.val.secret_id_accessor = last.entry.secret_id_accessor

\* A registration under the local prefix succeeded.
C2_Witness ==
    /\ RegisterReturned
    /\ IsOk(last.ret)
    /\ last.prefix = SECRET_ID_LOCAL_PREFIX

\* C3: in every state of registration, flush and deletion of entries (between
\* register's two writes and after a storage failure too), the AccessorEntry of
\* every stored SecretIdEntry is stored.
C3_NoEntryWithoutAccessor == \A k \in EntryKeys : HasAccessor(k)

\* A register call whose second write failed left an accessor with no entry,
\* next to a stored entry.
C3_Witness ==
    /\ RegisterReturned
    /\ IsErr(last.ret, STORAGE_ERROR)
    /\ last.from = "reg_set"
    /\ AccessorIndex(last.entry.secret_id_accessor, last.prefix) \in DOMAIN storage
    /\ IndexOf(last) \notin DOMAIN storage
    /\ EntryKeys # {}

\* C4 as stated: when no operation is in progress, an AccessorEntry is stored if
\* and only if the SecretIdEntry it refers to is stored.
C4_Original ==
    Quiescent =>
        /\ \A k \in EntryKeys : HasAccessor(k)
        /\ \A a \in AccessorKeys : HasEntry(a)

\* C4 (as amended): when no operation is in progress, after registrations,
\* flushes and deletions of entries, the AccessorEntry of every stored
\* SecretIdEntry is stored and names the digest of that entry (an AccessorEntry
\* may outlive its entry).
C4_EntryHasItsAccessor == Quiescent => \A k \in EntryKeys : AccessorNames(k)

\* At rest after a flush, an entry with its accessor next to an accessor whose
\* entry is gone.
C4_Witness ==
    /\ Quiescent
    /\ FlushReturned
    /\ IsOk(last.ret)
    /\ \E k \in EntryKeys : AccessorNames(k)
    /\ \E a \in AccessorKeys : ~HasEntry(a)

\* C5: when register returns success, the secret_id_ttl of the stored
\* SecretIdEntry is derive_secret_id_ttl of the requested ttl, the maximum
\* lease duration when more was requested.
C5_StoredTtlCapped ==
    (RegisterReturned /\ IsOk(last.ret)) =>
        from_slice(storage[IndexOf(last)]).secret_id_ttl
            = derive_secret_id_ttl(last.requested_ttl)

\* C6: when register returns success, creation_time = last_updated_time is an
\* instant of the clock; expiration_time is creation_time plus the effective
\* ttl when that ttl is not zero, and the caller's value when it is zero.
C6_ExpirationRule ==
    (RegisterReturned /\ IsOk(last.ret)) =>
        LET e == from_slice(storage[IndexOf(last)])
            ttl == derive_secret_id_ttl(last.requested_ttl)
        IN  /\ e.creation_time \in NowValues
            /\ e.last_updated_time = e.creation_time
            /\ ttl # Dur(0, 0) => e.expiration_time = TimeAdd(e.creation_time, ttl)
            /\ ttl = Dur(0, 0) => e.expiration_time = CallerTime

\* C7: derive_secret_id_ttl(x) is x when x is at most the maximum lease
\* duration (zero stays zero) and the maximum lease duration otherwise; it is
\* never above the maximum.
C7_TtlCapping ==
    (call.fn = "derive_secret_id_ttl" /\ call.stage = "returned") =>
        /\ ~DurGreater(call.arg, MAX_LEASE_DURATION_SECS) => call.ret = call.arg
        /\ DurGreater(call.arg, MAX_LEASE_DURATION_SECS) => call.ret = MAX_LEASE_DURATION_SECS
        /\ ~DurGreater(call.ret, MAX_LEASE_DURATION_SECS)
        /\ call.arg = Dur(0, 0) => call.ret = Dur(0, 0)

\* A duration above the maximum was capped.
C7_Witness ==
    /\ call.fn = "derive_secret_id_ttl"
    /\ call.stage = "returned"
    /\ DurGreater(call.arg, MAX_LEASE_DURATION_SECS)
    /\ call.ret = MAX_LEASE_DURATION_SECS

\* Thread t takes the step of its check or of its recheck.
Checks(t) == th[t].pc \in {"reg_check", "reg_recheck"} /\ th'[t] # th[t]
Stored(t) == EntryIndex(th[t].prefix, th[t].rh, th[t].sh) \in DOMAIN storage

\* C8: a register call that finds the SecretIdEntry of its pair stored, at its
\* check or at its recheck, returns 'secret_id is already registered' (or the
\* error of the storage read); the store is as before, and the caller's entry
\* is as it was, with no accessor.
C8_DuplicateRejected ==
    [][\A t \in Threads :
          (Checks(t) /\ Stored(t)) =>
              /\ last'.pc = "done"
              /\ AlreadyRegistered(last') \/ IsErr(last'.ret, STORAGE_ERROR)
              /\ storage' = storage
              /\ last'.entry = th[t].entry
              /\ last'.entry.secret_id_accessor = EmptyStr
              /\ nextUuid' = nextUuid]_vars

\* A second registration of a stored pair was rejected at the shared check,
\* the entry and its accessor being stored.
C8_Witness ==
    /\ RegisterReturned
    /\ AlreadyRegistered(last)
    /\ last.from = "reg_check"
    /\ IndexOf(last) \in DOMAIN storage
    /\ HasAccessor(IndexOf(last))

\* C9: two successful registrations of one pair never assign the same
\* accessor; a register call is rejected as already registered only when it
\* finds the entry stored, so that after the entry was deleted the call returns
\* success unless the storage fails or the salt is missing.
C9_ReRegister ==
    /\ [](\A i, j \in DOMAIN registered :
             (i # j /\ registered[i].ok /\ registered[j].ok
                    /\ PairOf(registered[i]) = PairOf(registered[j]))
                 => registered[i].accessor # registered[j].accessor)
    /\ []((RegisterReturned /\ ValidArguments(last)) =>
             \/ IsOk(last.ret)
             \/ AlreadyRegistered(last)
             \/ IsErr(last.ret, STORAGE_ERROR)
             \/ IsErr(last.ret, NOT_INITIALIZED))
    /\ [][\A t \in Threads :
             (Checks(t) /\ AlreadyRegistered(last')) => Stored(t)]_vars

\* A pair was registered, deleted and registered again with another accessor.
C9_Witness ==
    /\ RegisterReturned
    /\ IsOk(last.ret)
    /\ \E i, j \in DOMAIN registered :
          /\ i < j
          /\ registered[i].ok
          /\ registered[j].ok
          /\ PairOf(registered[i]) = PairOf(registered[j])
          /\ registered[i].accessor # registered[j].accessor

\* C10: when flush_role_secrets returns success and no other operation ran
\* since it began, get_secret_id_storage_entry returns None for every digest
\* that was listed under the role, and the list of the role is empty.
C10_FlushCompleteness ==
    (FlushReturned /\ IsOk(last.ret) /\ last.alone) =>
        /\ \A d \in last.snap :
              get_secret_id_storage_entry(storage, TRUE, last.prefix, last.rh, d) = Ok(None)
        /\ StorageList(storage, last.prefix, last.rh) = {}

\* A flush that ran alone deleted two entries.
C10_Witness ==
    /\ FlushReturned
    /\ IsOk(last.ret)
    /\ last.alone
    /\ Cardinality(last.snap) = 2

\* Thread t takes a step of flush_role_secrets.
FlushSteps(t) ==
    \/ th[t].op = "flush" /\ th'[t].pc # th[t].pc
    \/ th[t].op # "flush" /\ th'[t].op = "flush"

\* C11: a step of flush_role_secrets(role, key, prefix) adds no record and
\* changes none; the records it removes are SecretIdEntry records stored under
\* prefix/role_hmac/, so that every AccessorEntry (those of the flushed
\* secret-ids too) and every SecretIdEntry of another role or prefix stays.
C11_FlushFrame ==
    [][\A t \in Threads :
          FlushSteps(t) =>
              /\ DOMAIN storage' \subseteq DOMAIN storage
              /\ \A k \in DOMAIN storage' : storage'[k] = storage[k]
              /\ \A k \in DOMAIN storage \ DOMAIN storage' :
                    /\ k \in EntryKeys
                    /\ k[1] = th[t].prefix
                    /\ k[2] = th[t].rh]_vars

\* A flush deleted the entries of its role: the accessor entry of a flushed
\* secret-id and the entry of another role under another prefix are stored.
C11_Witness ==
    /\ FlushReturned
    /\ IsOk(last.ret)
    /\ last.snap # {}
    /\ StorageList(storage, last.prefix, last.rh) = {}
    /\ \E a \in AccessorKeys :
          /\ a[1] = AccessorPrefix(last.prefix)
          /\ from_slice(storage[a]).secret_id_hmac \in last.snap
    /\ \E k \in EntryKeys : k[1] # last.prefix /\ k[2] # last.rh

\* The holds of thread t in the two lock domains.
SecretIdHolds(t) == {h \in secret_id_locks : h[2] = t}
AccessorHolds(t) == {h \in secret_id_accessor_locks : h[2] = t}

\* C12 as stated: no caller ever holds a lock striped by secret-id digest and a
\* lock striped by accessor at the same time.
C12_Original ==
    \A t \in Threads : ~(SecretIdHolds(t) # {} /\ AccessorHolds(t) # {})

\* C12 (as amended): a caller holds at most one lock of each domain; it holds
\* one of each only inside register, while create_secret_id_accessor_entry
\* writes the accessor entry: the exclusive lock of its secret-id digest, taken
\* first, and the exclusive lock of the fresh accessor, taken second; flush and
\* the accessor operations hold locks of one domain only, and no caller takes
\* a secret-id lock while it holds an accessor lock.
C12_LockOrder ==
    /\ [](\A t \in Threads :
             /\ Cardinality(SecretIdHolds(t)) <= 1
             /\ Cardinality(AccessorHolds(t)) <= 1
             /\ (SecretIdHolds(t) # {} /\ AccessorHolds(t) # {}) =>
                   /\ th[t].op = "register"
                   /\ th[t].pc = "acc_put"
                   /\ SecretIdHolds(t) = {<<get_lock(th[t].sh), t, "write">>}
                   /\ AccessorHolds(t) =
                          {<<get_lock(th[t].entry.secret_id_accessor), t, "write">>}
             /\ th[t].op \in {"flush", "delete_entry"} => AccessorHolds(t) = {}
             /\ th[t].op \in {"get_accessor", "delete_accessor"} => SecretIdHolds(t) = {})
    /\ [][\A t \in Threads :
             (\E h \in secret_id_locks' \ secret_id_locks : h[2] = t)
                 => AccessorHolds(t) = {}]_vars

\* A register call holds the lock of its secret-id digest and the lock of its
\* accessor while another caller holds a lock too.
C12_Witness ==
    \E t, u \in Threads :
        /\ t # u
        /\ th[t].pc = "acc_put"
        /\ SecretIdHolds(t) # {}
        /\ AccessorHolds(t) # {}
        /\ SecretIdHolds(u) \cup AccessorHolds(u) # {}

\* Thread t waits for a lock striped by secret-id digest, or by accessor, that
\* is held.
WantedSecretIdLock(t) ==
    IF th[t].pc = "flush_lock" THEN get_lock(Head(th[t].list)) ELSE get_lock(th[t].sh)
BlockedOnSecretId(t) ==
    \/ th[t].pc = "reg_rlock" /\ ~CanRead(secret_id_locks, WantedSecretIdLock(t))
    \/ th[t].pc \in {"reg_wlock", "flush_lock"}
          /\ ~CanWrite(secret_id_locks, WantedSecretIdLock(t))
WantedAccessorLock(t) ==
    IF th[t].pc = "acc_wlock" THEN get_lock(th[t].entry.secret_id_accessor)
    ELSE get_lock(th[t].acc)
BlockedOnAccessor(t) ==
    \/ th[t].pc = "getacc_rlock" /\ ~CanRead(secret_id_accessor_locks, WantedAccessorLock(t))
    \/ th[t].pc \in {"acc_wlock", "delacc_wlock"}
          /\ ~CanWrite(secret_id_accessor_locks, WantedAccessorLock(t))

\* C13: under a fair scheduler, with storage calls that return (with a value
\* or an error) and callers that start finitely many operations, every
\* operation a caller started returns; a caller that
\* runs no operation holds no lock; and no callers wait on each other: a lock
\* of a secret-id digest that a caller waits for is held by another caller,
\* which waits for no secret-id lock, and an accessor lock that a caller waits
\* for is held by another caller, which waits for no lock.
C13_DeadlockFreedom ==
    /\ \A t \in Threads : (th[t].pc # "idle") ~> (th[t].pc = "idle")
    /\ [](\A t \in Threads :
             Free(t) => SecretIdHolds(t) = {} /\ AccessorHolds(t) = {})
    /\ [](\A t \in Threads :
             /\ BlockedOnSecretId(t) =>
                   \A h \in secret_id_locks :
                       h[1] = WantedSecretIdLock(t) =>
                           h[2] # t /\ ~BlockedOnSecretId(h[2])
             /\ BlockedOnAccessor(t) =>
                   \A h \in secret_id_accessor_locks :
                       h[1] = WantedAccessorLock(t) =>
                           /\ h[2] # t
                           /\ ~BlockedOnSecretId(h[2])
                           /\ ~BlockedOnAccessor(h[2]))

\* A register call that holds the lock of its secret-id digest waits for the
\* lock of its accessor, held by an accessor operation of another caller.
C13_Witness ==
    \E t \in Threads :
        /\ th[t].pc = "acc_wlock"
        /\ SecretIdHolds(t) # {}
        /\ BlockedOnAccessor(t)

\* The secret-id digest and the accessor that the operation of thread t works
\* on at its position.
DigestOf(t) == IF th[t].op = "flush" THEN Head(th[t].list) ELSE th[t].sh
AccessorOf(t) ==
    IF th[t].op = "register" THEN th[t].entry.secret_id_accessor ELSE th[t].acc

\* C14: a caller that cannot take the lock it asks for is kept waiting by a
\* caller whose operation works on the same secret-id digest (for a lock of
\* the secret-id domain) or on the same accessor (for a lock of the accessor
\* domain), never by an operation on another key; and every hold is a hold of
\* the lock of the key its holder works on.
C14_NoCrossKeyBlocking ==
    \A t \in Threads :
        /\ (\/ th[t].pc = "reg_rlock" /\ ~ENABLED RegisterReadLock(t)
            \/ th[t].pc = "reg_wlock" /\ ~ENABLED RegisterWriteLock(t)
            \/ th[t].pc = "flush_lock" /\ ~ENABLED FlushLock(t))
              => \E u \in Threads \ {t} :
                     SecretIdHolds(u) # {} /\ DigestOf(u) = DigestOf(t)
        /\ (\/ th[t].pc = "acc_wlock" /\ ~ENABLED CreateAccessorLock(t)
            \/ th[t].pc = "getacc_rlock" /\ ~ENABLED GetAccessorLock(t)
            \/ th[t].pc = "delacc_wlock" /\ ~ENABLED DeleteAccessorLock(t))
              => \E u \in Threads \ {t} :
                     AccessorHolds(u) # {} /\ AccessorOf(u) = AccessorOf(t)
        /\ \A h \in SecretIdHolds(t) : h[1] = get_lock(DigestOf(t))
        /\ \A h \in AccessorHolds(t) : h[1] = get_lock(AccessorOf(t))

\* Two callers hold, each exclusively, the locks of two different secret-id
\* digests at the same time.
C14_Witness ==
    \E t, u \in Threads :
        /\ <<get_lock(DigestOf(t)), t, "write">> \in secret_id_locks
        /\ <<get_lock(DigestOf(u)), u, "write">> \in secret_id_locks
        /\ DigestOf(t) # DigestOf(u)

\* Thread t takes the step it is at position pc for.
StepsFrom(t, pc) == th[t].pc = pc /\ th'[t].pc # pc

\* C15: when register returns success, the SecretIdEntry it was given is
\* stored at its index and its AccessorEntry is stored; when flush returns
\* success, no listed digest is left to delete; and a storage write or delete
\* that did not take effect makes the operation return an error in that step:
\* the put of the accessor entry, the put of the entry, the delete of a flush.
C15_NoPartialSuccess ==
    /\ []((RegisterReturned /\ IsOk(last.ret)) =>
             /\ IndexOf(last) \in DOMAIN storage
             /\ from_slice(storage[IndexOf(last)]) = last.entry
             /\ AccessorNames(IndexOf(last)))
    /\ []((FlushReturned /\ IsOk(last.ret)) => last.list = <<>>)
    /\ [][\A t \in Threads :
             /\ (StepsFrom(t, "acc_put")
                   /\ AccessorIndex(th[t].entry.secret_id_accessor, th[t].prefix)
                          \notin DOMAIN storage')
                 => last'.pc = "done" /\ IsErr(last'.ret, STORAGE_ERROR)
             /\ (StepsFrom(t, "reg_set")
                   /\ EntryIndex(th[t].prefix, th[t].rh, th[t].sh) \notin DOMAIN storage')
                 => last'.pc = "done" /\ ~IsOk(last'.ret)
             /\ (StepsFrom(t, "flush_delete")
                   /\ EntryIndex(th[t].prefix, th[t].rh, Head(th[t].list))
                          \in DOMAIN storage')
                 => last'.pc = "done" /\ IsErr(last'.ret, STORAGE_ERROR)]_vars

\* A flush deleted one entry of its role and returned the storage error of
\* the delete of the next one, which is still stored.
C15_Witness ==
    /\ FlushReturned
    /\ IsErr(last.ret, STORAGE_ERROR)
    /\ last.from = "flush_delete"
    /\ Len(last.list) < Cardinality(last.snap)
    /\ EntryIndex(last.prefix, last.rh, Head(last.list)) \in DOMAIN storage

\* create_hmac has returned, and the result it gave.
HmacReturned == call.fn = "create_hmac" /\ call.stage \in {"returned", "repeated"}

\* C16 as stated: create_hmac(k, v) fails with the error of a too long value if
\* and only if len(v) > 4096, and with the error of an invalid key if and only
\* if k is empty.
C16_Original ==
    HmacReturned =>
        /\ IsErr(call.ret, VALUE_TOO_LONG) <=> call.arg.value.len > MAX_HMAC_INPUT_LENGTH
        /\ IsErr(call.ret, INVALID_HMAC_KEY) <=> call.arg.key = ""

\* C16 (as amended): create_hmac(k, v) fails with the error of an invalid key
\* if and only if k is empty, whatever the length of v; it fails with the error
\* of a too long value if and only if k is not empty and len(v) > 4096; for a
\* non-empty k and len(v) <= 4096 it succeeds with a digest of k and v, and the
\* same call made again returns the same result.
C16_HmacErrors ==
    HmacReturned =>
        /\ IsErr(call.ret, INVALID_HMAC_KEY) <=> call.arg.key = ""
        /\ IsErr(call.ret, VALUE_TOO_LONG) <=>
              (call.arg.key # "" /\ call.arg.value.len > MAX_HMAC_INPUT_LENGTH)
        /\ (call.arg.key # "" /\ call.arg.value.len <= MAX_HMAC_INPUT_LENGTH) =>
              /\ IsOk(call.ret)
              /\ call.ret.val = <<"hmac-sha256", call.arg.key, call.arg.value.txt>>
        /\ call.stage = "repeated" => call.again = call.ret

\* create_hmac was called with no key and a value above the maximum: the error
\* is the one of the key.
C16_Witness ==
    /\ HmacReturned
    /\ call.arg.key = ""
    /\ call.arg.value.len > MAX_HMAC_INPUT_LENGTH
    /\ IsErr(call.ret, INVALID_HMAC_KEY)

\* The record at key k is written, changed or deleted by the step.
Changed(k) ==
    \/ (k \in DOMAIN storage) # (k \in DOMAIN storage')
    \/ k \in DOMAIN storage /\ k \in DOMAIN storage' /\ storage'[k] # storage[k]
IsEntryKey(k) == k[1] \in {SECRET_ID_PREFIX, SECRET_ID_LOCAL_PREFIX}

\* C17: register reads the SecretIdEntry of its pair while it holds the lock of
\* the secret-id digest, shared at the check and exclusive at the recheck; it
\* writes the entry, and flush deletes an entry, while holding that digest's
\* lock exclusively; every write or delete of an entry by register or flush is
\* a step of a caller that holds the digest's lock exclusively; and two
\* callers hold the lock of one digest at the same time only when both hold it
\* shared.
C17_LockingDiscipline ==
    /\ [](\A t \in Threads :
             /\ th[t].pc = "reg_check"
                   => <<get_lock(th[t].sh), t, "read">> \in secret_id_locks
             /\ th[t].pc \in {"reg_recheck", "reg_set"}
                   => <<get_lock(th[t].sh), t, "write">> \in secret_id_locks
             /\ th[t].pc = "flush_delete"
                   => <<get_lock(Head(th[t].list)), t, "write">> \in secret_id_locks)
    /\ [](\A h1, h2 \in secret_id_locks :
             (h1[1] = h2[1] /\ h1[2] # h2[2]) => (h1[3] = "read" /\ h2[3] = "read"))
    /\ [][\A k \in DOMAIN storage \cup DOMAIN storage' :
             (IsEntryKey(k) /\ Changed(k) /\ last'.op # "delete_entry") =>
                 \E t \in Threads :
                     /\ th'[t].pc # th[t].pc
                     /\ th[t].op \in {"register", "flush"}
                     /\ <<get_lock(k[3]), t, "write">> \in secret_id_locks]_vars

\* A flush holds the lock of a digest exclusively, about to delete its entry,
\* while a register call of that digest waits for the lock.
C17_Witness ==
    \E t, u \in Threads :
        /\ th[t].pc = "flush_delete"
        /\ th[u].pc \in {"reg_rlock", "reg_wlock"}
        /\ th[u].sh = Head(th[t].list)
        /\ EntryIndex(th[t].prefix, th[t].rh, Head(th[t].list)) \in DOMAIN storage

\* The step is the call of a flush with the arguments of the flush that
\* returned in the step before.
FlushAgain(c) == c.op = "flush" /\ c.role = last.role /\ c.key = last.key /\ c.prefix = last.prefix

\* C18: flush_role_secrets on a role with no stored entry, with a storage that
\* answers, returns success and changes nothing, and a flush that returns from
\* its listing never changes the store; a flush that resumes, alone, a flush
\* stopped at a failed delete and returns success leaves no entry of the role;
\* and a flush called right after a flush of the same role that succeeded alone
\* returns at once, with success or with the error of the listing, the store
\* being as the first flush left it.
C18_FlushIdempotent ==
    /\ [](\A t \in Threads, a \in FlushInputs :
             (/\ Free(t)
              /\ IsOk(create_hmac(a[2], a[1]))
              /\ StorageList(storage, a[3], create_hmac(a[2], a[1]).val) = {})
                 => /\ ENABLED (/\ FlushCall(t, a[1], a[2], a[3], TRUE)
                                /\ IsOk(last'.ret)
                                /\ storage' = storage)
                    /\ ~ENABLED (/\ FlushCall(t, a[1], a[2], a[3], TRUE)
                                 /\ ~(last'.pc = "done" /\ IsOk(last'.ret))))
    /\ [][(last'.pc = "done" /\ last'.op = "flush" /\ last'.from = "flush_call")
             => storage' = storage]_vars
    /\ []((FlushReturned /\ IsOk(last.ret) /\ last.resumed) =>
             /\ last.alone
             /\ StorageList(storage, last.prefix, last.rh) = {}
             /\ \A d \in last.snap :
                   EntryIndex(last.prefix, last.rh, d) \notin DOMAIN storage)
    /\ [][(FlushReturned /\ IsOk(last.ret) /\ last.alone) =>
             /\ \A t \in Threads : ~(Free(t) /\ FlushAgain(th'[t]))
             /\ (last'.pc = "done" /\ FlushAgain(last')) =>
                   /\ IsOk(last'.ret) \/ IsErr(last'.ret, STORAGE_ERROR)
                   /\ storage' = storage]_vars

\* A flush stopped at a failed delete; the flush called next ran alone, deleted
\* the entries that were left and returned success.
C18_Witness ==
    /\ FlushReturned
    /\ IsOk(last.ret)
    /\ last.resumed
    /\ last.snap # {}
    /\ StorageList(storage, last.prefix, last.rh) = {}

\* The register call c returned an error of its arguments or the error of a
\* backend that is not initialised.
ArgumentError(c) ==
    \/ IsErr(c.ret, INVALID_HMAC_KEY)
    \/ IsErr(c.ret, VALUE_TOO_LONG)
    \/ IsErr(c.ret, MISSING_PREFIX)
    \/ IsErr(c.ret, NOT_INITIALIZED)
\* The record at key k was written by the register call c: it is the accessor
\* entry of the accessor generated for c, or an entry that carries it.
WrittenBy(k, c) ==
    /\ c.entry.secret_id_accessor # EmptyStr
    /\ \/ k = AccessorIndex(c.entry.secret_id_accessor, c.prefix)
       \/ IsEntryKey(k) /\ from_slice(storage[k]).secret_id_accessor = c.entry.secret_id_accessor

\* C19: when register returns an error of its arguments (empty hmac key, role
\* name or secret-id above 4096 bytes, empty prefix) or the error of a backend
\* that is not initialised, the store holds no record written by that call: no
\* AccessorEntry of its accessor and no SecretIdEntry.
C19_FailedRegisterWritesNothing ==
    (RegisterReturned /\ ArgumentError(last)) =>
        \A k \in DOMAIN storage : ~WrittenBy(k, last)

\* The entries of the role of the flush c that are stored.
RoleKeys(c) == {k \in EntryKeys : k[1] = c.prefix /\ k[2] = c.rh}

\* C20: flush_role_secrets lists the digests of the role in the step of its
\* call, holding no lock, and never lists again; every record a step of the
\* flush removes is the entry of a digest of that list; and when the flush
\* returns success, every entry of the role that is stored (one registered
\* while the flush ran) has its AccessorEntry, which names its digest.
C20_FlushRacesRegister ==
    /\ [][\A t \in Threads :
             /\ (th[t].op # "flush" /\ th'[t].op = "flush") =>
                   /\ th'[t].snap = StorageList(storage, th'[t].prefix, th'[t].rh)
                   /\ SecretIdHolds(t) = {}
                   /\ secret_id_locks' = secret_id_locks
             /\ (th[t].op = "flush" /\ th'[t].op = "flush") => th'[t].snap = th[t].snap
             /\ FlushSteps(t) =>
                   \A k \in DOMAIN storage \ DOMAIN storage' : k[3] \in th[t].snap]_vars
    /\ []((FlushReturned /\ IsOk(last.ret)) => \A k \in RoleKeys(last) : AccessorNames(k))

\* A flush and a register call of the same role ran at the same time and both
\* returned success: the entry, whose digest the flush had not listed, is
\* stored with its accessor entry.
C20_Witness ==
    /\ FlushReturned
    /\ IsOk(last.ret)
    /\ last.snap # {}
    /\ \E k \in RoleKeys(last) :
          /\ k[3] \notin last.snap
          /\ AccessorNames(k)
          /\ \E i \in DOMAIN registered :
                /\ registered[i].ok
                /\ registered[i].accessor = from_slice(storage[k]).secret_id_accessor

=============================================================================
